---- MODULE Spec2Model ----
(***************************************************************************)
(* BinaryVec<T: Ord> (src/src/lib.rs): a Vec<T> kept in sorted order by    *)
(* locating every insertion and removal with slice::binary_search.         *)
(*                                                                         *)
(* An element of T is modelled as a record [key, id]: the ordering of T    *)
(* (Ord::cmp, and with it ==) looks at key only, id tells apart two values *)
(* that compare equal.  Indices are 0-based as in the source; the sequence *)
(* vec holds element i at vec[i + 1].                                      *)
(***************************************************************************)
EXTENDS Integers, Sequences, FiniteSets

\* Bounds of the model.
MaxKey == 3
NumIds == 2
MaxLen == 4
MaxAdditional == 2

Keys == 1 .. MaxKey
Ids == 1 .. NumIds
Values == [key : Keys, id : Ids]
\* Index arguments tried by remove and get: every valid index and some beyond.
Indices == 0 .. (MaxLen + 1)
\* One value per key: the values the calls of SpecFull are made with.
PlainValues == { v \in Values : v.id = 1 }
\* Arguments tried by with_capacity and reserve, and by resize.
Additionals == 0 .. MaxAdditional
Lengths == 0 .. MaxLen

\* Option<T>: None, Some(x).
None == << >>
Some(x) == << x >>

\* T: Ord -- Ord::cmp(a, b).
Cmp(a, b) ==
    IF a.key < b.key THEN "Less"
    ELSE IF a.key > b.key THEN "Greater"
    ELSE "Equal"

\* a == b for T: Ord (PartialEq agrees with Ord::cmp).
Eq(a, b) == Cmp(a, b) = "Equal"

\* Result<usize, usize>: Ok(index), Err(index).
Ok(index) == [ok |-> TRUE, index |-> index]
Err(index) == [ok |-> FALSE, index |-> index]

\* The loop of slice::binary_search_by: halve [base, base + size) until one
\* candidate is left, keeping base at the last element not Greater than value.
RECURSIVE search_loop(_, _, _, _)
search_loop(s, value, base, size) ==
    IF size > 1
    THEN LET half == size \div 2
             mid == base + half
         IN  search_loop(s, value,
                         IF Cmp(s[mid + 1], value) = "Greater" THEN base ELSE mid,
                         size - half)
    ELSE base

\* binary_search reporting the last candidate itself as the insertion point,
\* also when it is Less than value.
binary_search_low(s, value) ==
    IF Len(s) = 0 THEN Err(0)
    ELSE LET base == search_loop(s, value, 0, Len(s))
         IN  IF Cmp(s[base + 1], value) = "Equal" THEN Ok(base) ELSE Err(base)

\* self.vec.binary_search(&value)
binary_search(s, value) ==
    IF Len(s) = 0 THEN Err(0)
    ELSE LET base == search_loop(s, value, 0, Len(s))
             cmp == Cmp(s[base + 1], value)
         IN  IF cmp = "Equal" THEN Ok(base)
             ELSE Err(base + (IF cmp = "Less" THEN 1 ELSE 0))

\* Vec::insert(index, value): everything from index on moves one place right.
vec_insert(s, index, value) ==
    SubSeq(s, 1, index) \o << value >> \o SubSeq(s, index + 1, Len(s))

\* Vec::remove(index): everything after index moves one place left.
vec_remove(s, index) ==
    SubSeq(s, 1, index) \o SubSeq(s, index + 2, Len(s))

\* BinaryVec::new
new == << >>

\* insert with Vec::push in place of Vec::insert(index, ..).
insert_push(s, value) ==
    LET r == binary_search(s, value)
    IN  IF r.ok
        THEN [vec |-> s, ret |-> r.index]
        ELSE [vec |-> Append(s, value), ret |-> r.index]

\* insert without the Ok arm: the value is stored at the index found even
\* when an equal element is there.
insert_always(s, value) ==
    LET r == binary_search(s, value)
    IN  [vec |-> vec_insert(s, r.index, value), ret |-> r.index]

\* insert returning the index after the one it stored the value at.
insert_ret_next(s, value) ==
    LET r == binary_search(s, value)
    IN  IF r.ok
        THEN [vec |-> s, ret |-> r.index]
        ELSE [vec |-> vec_insert(s, r.index, value), ret |-> r.index + 1]

\* insert whose Ok arm overwrites the stored element with the new value.
insert_overwrite(s, value) ==
    LET r == binary_search(s, value)
    IN  IF r.ok
        THEN [vec |-> [s EXCEPT ![r.index + 1] = value], ret |-> r.index]
        ELSE [vec |-> vec_insert(s, r.index, value), ret |-> r.index]

\* BinaryVec::insert: the vector after the call and the index returned.
insert(s, value) ==
    LET r == binary_search(s, value)
    IN  IF r.ok
        THEN [vec |-> s, ret |-> r.index]
        ELSE [vec |-> vec_insert(s, r.index, value), ret |-> r.index]

\* BinaryVec::get
get(s, index) == IF index < Len(s) THEN Some(s[index + 1]) ELSE None

\* get_index returning the index after the one found.
get_index_next(s, value) ==
    LET r == binary_search(s, value)
    IN  IF r.ok THEN Some(r.index + 1) ELSE None

\* get_index returning the index of Ok and of Err alike.
get_index_any(s, value) == Some(binary_search(s, value).index)

\* BinaryVec::get_index
get_index(s, value) ==
    LET r == binary_search(s, value)
    IN  IF r.ok THEN Some(r.index) ELSE None

\* remove with Vec::swap_remove in place of Vec::remove: the last element
\* fills the gap.
remove_swap(s, index) ==
    IF index < Len(s)
    THEN [vec |-> IF index = Len(s) - 1
                  THEN SubSeq(s, 1, index)
                  ELSE [SubSeq(s, 1, Len(s) - 1) EXCEPT ![index + 1] = s[Len(s)]],
          ret |-> Some(s[index + 1])]
    ELSE [vec |-> s, ret |-> None]

\* remove clamping an index past the end to the last element.
remove_clamp(s, index) ==
    IF Len(s) = 0
    THEN [vec |-> s, ret |-> None]
    ELSE LET i == IF index < Len(s) THEN index ELSE Len(s) - 1
         IN  [vec |-> vec_remove(s, i), ret |-> Some(s[i + 1])]

\* BinaryVec::remove: the vector after the call and the Option<T> returned.
remove(s, index) ==
    IF index < Len(s)
    THEN [vec |-> vec_remove(s, index), ret |-> Some(s[index + 1])]
    ELSE [vec |-> s, ret |-> None]

\* remove_item removing at the index of Err as well, when one is there.
remove_item_err(s, value) ==
    LET r == binary_search(s, value)
    IN  IF r.index < Len(s)
        THEN [vec |-> vec_remove(s, r.index), ret |-> Some(s[r.index + 1])]
        ELSE [vec |-> s, ret |-> None]

\* BinaryVec::remove_item
remove_item(s, value) ==
    LET r == binary_search(s, value)
    IN  IF r.ok
        THEN [vec |-> vec_remove(s, r.index), ret |-> Some(s[r.index + 1])]
        ELSE [vec |-> s, ret |-> None]

\* BinaryVec::contains
contains(s, value) == binary_search(s, value).ok

\* BinaryVec::len
len(s) == Len(s)

Max(a, b) == IF a > b THEN a ELSE b

\* Vec's smallest non-empty allocation (RawVec::MIN_NON_ZERO_CAP for elements
\* of more than one byte).
MinNonZeroCap == 4

\* Vec's amortized growth (RawVec::grow_amortized): at least double, at least
\* what is required, at least MinNonZeroCap.
grow_amortized(c, length, additional) ==
    Max(MinNonZeroCap, Max(2 * c, length + additional))

\* Vec::reserve(additional): the capacity afterwards.
vec_reserve(c, length, additional) ==
    IF additional > c - length THEN grow_amortized(c, length, additional) ELSE c

\* insert that never grows the allocation.
insert_capacity_fixed(c, s, value) == c

\* The capacity after BinaryVec::insert: Vec::insert grows a full vector by
\* one before it shifts; the Ok arm does not touch the vector.
insert_capacity(c, s, value) ==
    IF ~binary_search(s, value).ok /\ Len(s) = c
    THEN grow_amortized(c, Len(s), 1)
    ELSE c

\* BinaryVec::with_capacity: the capacity of the empty vector it makes.
with_capacity(n) == n

\* BinaryVec::capacity
capacity(c) == c

\* BinaryVec::is_empty
is_empty(s) == Len(s) = 0

\* BinaryVec::clear: Vec::clear drops the elements and keeps the allocation.
clear(c, s) == [vec |-> << >>, cap |-> c]

\* reserve replacing the vector by a fresh Vec::with_capacity(additional).
reserve_fresh(c, s, additional) == [vec |-> << >>, cap |-> additional]

\* BinaryVec::reserve
reserve(c, s, additional) ==
    [vec |-> s, cap |-> vec_reserve(c, Len(s), additional)]

\* BinaryVec::shrink_to_fit
shrink_to_fit(c, s) ==
    [vec |-> s, cap |-> IF c > Len(s) THEN Len(s) ELSE c]

\* resize putting the new clones where value sorts instead of at the end.
resize_sorted(c, s, new_len, value) ==
    IF new_len > Len(s)
    THEN LET i == binary_search(s, value).index
         IN  [vec |-> SubSeq(s, 1, i)
                      \o [j \in 1 .. (new_len - Len(s)) |-> value]
                      \o SubSeq(s, i + 1, Len(s)),
              cap |-> vec_reserve(c, Len(s), new_len - Len(s))]
    ELSE [vec |-> SubSeq(s, 1, new_len), cap |-> c]

\* resize dropping the head instead of the tail when it shortens.
resize_keep_tail(c, s, new_len, value) ==
    IF new_len > Len(s)
    THEN [vec |-> s \o [i \in 1 .. (new_len - Len(s)) |-> value],
          cap |-> vec_reserve(c, Len(s), new_len - Len(s))]
    ELSE [vec |-> SubSeq(s, Len(s) - new_len + 1, Len(s)), cap |-> c]

\* BinaryVec::resize: Vec::resize truncates to new_len, or reserves and
\* appends new_len - len clones of value.
resize(c, s, new_len, value) ==
    IF new_len > Len(s)
    THEN [vec |-> s \o [i \in 1 .. (new_len - Len(s)) |-> value],
          cap |-> vec_reserve(c, Len(s), new_len - Len(s))]
    ELSE [vec |-> SubSeq(s, 1, new_len), cap |-> c]

\* BinaryVec::first
first(s) == IF Len(s) = 0 THEN None ELSE Some(s[1])

\* last reading one place past the end.
last_past_end(s) == IF Len(s) = 0 THEN None ELSE get(s, Len(s))

\* BinaryVec::last
last(s) == IF Len(s) = 0 THEN None ELSE Some(s[Len(s)])

(***************************************************************************)
(* State.  vec is the field BinaryVec::vec and cap its capacity.  The      *)
(* other variables record the calls made on it: op, arg and ret are the    *)
(* last call, its argument and its result, old is vec as that call found   *)
(* it, and prev holds the same four for the call before.                   *)
(***************************************************************************)
VARIABLES vec, cap, old, op, arg, ret, prev

vars == << vec, cap, old, op, arg, ret, prev >>

LastCall == [op |-> op, arg |-> arg, ret |-> ret, old |-> old]

NoCall == [op |-> "none", arg |-> None, ret |-> None, old |-> << >>]

Init ==
    /\ vec = new
    /\ cap = 0
    /\ old = << >>
    /\ op = "new"
    /\ arg = None
    /\ ret = None
    /\ prev = NoCall

\* binary_vec.insert(value), value drawn from V.  A container that holds at
\* most one element per key never reaches MaxLen, and the guard disables no
\* call of it: it keeps the state space finite where equal values are stored.
InsertCall(V) ==
    \E value \in V :
        /\ Len(vec) < MaxLen
        /\ LET r == insert(vec, value)
           IN  /\ vec' = r.vec
               /\ ret' = r.ret
        /\ cap' = insert_capacity(cap, vec, value)
        /\ old' = vec
        /\ op' = "insert"
        /\ arg' = value

\* binary_vec.remove(index)
RemoveCall ==
    \E index \in Indices :
        /\ LET r == remove(vec, index)
           IN  /\ vec' = r.vec
               /\ ret' = r.ret
        /\ cap' = cap
        /\ old' = vec
        /\ op' = "remove"
        /\ arg' = index

\* binary_vec.remove_item(&value), value drawn from V
RemoveItemCall(V) ==
    \E value \in V :
        /\ LET r == remove_item(vec, value)
           IN  /\ vec' = r.vec
               /\ ret' = r.ret
        /\ cap' = cap
        /\ old' = vec
        /\ op' = "remove_item"
        /\ arg' = value

\* binary_vec.clear()
ClearCall ==
    /\ LET r == clear(cap, vec)
       IN  /\ vec' = r.vec
           /\ cap' = r.cap
    /\ ret' = None
    /\ old' = vec
    /\ op' = "clear"
    /\ arg' = None

\* binary_vec.reserve(additional)
ReserveCall ==
    \E additional \in Additionals :
        /\ LET r == reserve(cap, vec, additional)
           IN  /\ vec' = r.vec
               /\ cap' = r.cap
        /\ ret' = None
        /\ old' = vec
        /\ op' = "reserve"
        /\ arg' = additional

\* binary_vec.shrink_to_fit()
ShrinkToFitCall ==
    /\ LET r == shrink_to_fit(cap, vec)
       IN  /\ vec' = r.vec
           /\ cap' = r.cap
    /\ ret' = None
    /\ old' = vec
    /\ op' = "shrink_to_fit"
    /\ arg' = None

\* binary_vec.resize(new_len, value), value drawn from V
ResizeCall(V) ==
    \E new_len \in Lengths, value \in V :
        /\ LET r == resize(cap, vec, new_len, value)
           IN  /\ vec' = r.vec
               /\ cap' = r.cap
        /\ ret' = None
        /\ old' = vec
        /\ op' = "resize"
        /\ arg' = [new_len |-> new_len, value |-> value]

\* The calls of Spec, each remembering the call before it.
Insert == InsertCall(Values) /\ prev' = LastCall

Remove == RemoveCall /\ prev' = LastCall

RemoveItem == RemoveItemCall(Values) /\ prev' = LastCall

Clear == ClearCall /\ prev' = LastCall

Next == Insert \/ Remove \/ RemoveItem

\* new(), then any insert, remove and remove_item calls.
Spec == Init /\ [][Next]_vars

NextClear == Insert \/ Remove \/ RemoveItem \/ Clear

\* new(), then any insert, remove, remove_item and clear calls.
SpecClear == Init /\ [][NextClear]_vars

\* new() or with_capacity(n)
InitFull ==
    \E n \in Additionals :
        /\ vec = << >>
        /\ cap = with_capacity(n)
        /\ old = << >>
        /\ op = "with_capacity"
        /\ arg = n
        /\ ret = None
        /\ prev = NoCall

NextFull ==
    \/ InsertCall(PlainValues) /\ UNCHANGED prev
    \/ RemoveCall /\ UNCHANGED prev
    \/ RemoveItemCall(PlainValues) /\ UNCHANGED prev
    \/ ClearCall /\ UNCHANGED prev
    \/ ReserveCall /\ UNCHANGED prev
    \/ ShrinkToFitCall /\ UNCHANGED prev
    \/ ResizeCall(PlainValues) /\ UNCHANGED prev

\* new() or with_capacity(n), then any calls of the mutating methods; only
\* the last call is remembered.
SpecFull == InitFull /\ [][NextFull]_vars

(***************************************************************************)
(* Properties.                                                             *)
(***************************************************************************)

\* for all valid i < j, s[i] <= s[j]
Sorted(s) == \A i, j \in 1 .. Len(s) : i < j => Cmp(s[i], s[j]) # "Greater"

\* some element of s compares equal to v
HasEqual(s, v) == \E i \in 1 .. Len(s) : Eq(s[i], v)

\* s with v placed at 0-based position i, everything from i on one place right
PlacedAt(s, i, v, t) ==
    /\ Len(t) = Len(s) + 1
    /\ i <= Len(s)
    /\ t[i + 1] = v
    /\ \A j \in 0 .. (Len(s) - 1) : IF j < i THEN t[j + 1] = s[j + 1]
                                             ELSE t[j + 2] = s[j + 1]

\* s with the element at 0-based position i taken out, the rest one place left
TakenAt(s, i, t) ==
    /\ Len(t) = Len(s) - 1
    /\ i < Len(s)
    /\ \A j \in 0 .. (Len(s) - 1) :
          IF j < i THEN t[j + 1] = s[j + 1]
          ELSE IF j > i THEN t[j] = s[j + 1]
          ELSE TRUE

\* C1: after every insert, remove(index) and remove_item(value) call made on a
\* container that started empty, the stored elements are in sorted order:
\* element[i] <= element[j] for all valid i < j.
C1_Sorted == Sorted(vec)

\* An insert in front of two stored elements has just shifted them right.
C1_Witness == op = "insert" /\ ret = 0 /\ Len(vec) >= 3 /\ Len(old) = Len(vec) - 1

C3_GetReturnedIndex ==
    op = "insert" => /\ get(vec, ret) # None
                     /\ Eq(get(vec, ret)[1], arg)

\* An insert between two stored elements.
C3_Witness ==
    op = "insert" /\ Len(vec) = Len(old) + 1 /\ ret > 0 /\ ret < Len(old)

\* remove(i) was called right after insert(v) returned i.
RoundTrip == prev.op = "insert" /\ op = "remove" /\ arg = prev.ret

C5_Found ==
    \A v \in Values :
        HasEqual(vec, v) =>
            /\ contains(vec, v)
            /\ get_index(vec, v) # None
            /\ LET i == get_index(vec, v)[1]
               IN  /\ get(vec, i) # None
                   /\ Eq(get(vec, i)[1], v)

\* The last of three stored elements is found at index 2.
C5_Witness == Len(vec) >= 3 /\ get_index(vec, vec[3]) = Some(2)

\* C6: every value v that is not an element of the container is not found:
\* contains(v) is false and get_index(v) is None.
C6_NotFound ==
    \A v \in Values :
        ~HasEqual(vec, v) =>
            /\ ~contains(vec, v)
            /\ get_index(vec, v) = None

\* A value between two stored elements has just been removed and is absent.
C6_Witness ==
    /\ op = "remove_item" /\ ret # None
    /\ arg.key > 1 /\ arg.key < MaxKey
    /\ Len(vec) >= 2
    /\ ~HasEqual(vec, arg)
    /\ get_index(vec, arg) = None

C8_OutOfRange ==
    /\ (op = "remove" /\ arg >= len(old)) =>
            ret = None /\ vec = old /\ len(vec) = len(old)
    /\ \A index \in Indices : index >= len(vec) => get(vec, index) = None

\* remove was called with index = len() on a container of two or more.
C8_Witness ==
    /\ op = "remove" /\ arg = len(old) /\ len(old) >= 2
    /\ get(vec, arg) = None

\* C9: remove(index) with index < len() returns the element that was at
\* index, decreases len() by exactly 1, leaves positions < index unchanged and
\* moves positions > index one place left.
C9_RemoveEffect ==
    (op = "remove" /\ arg < len(old)) =>
        /\ ret = Some(old[arg + 1])
        /\ len(vec) = len(old) - 1
        /\ TakenAt(old, arg, vec)

\* A remove with elements on both sides of the index.
C9_Witness ==
    op = "remove" /\ arg > 0 /\ arg + 1 < len(old) /\ ret # None

\* C10: remove_item(v), when an element equal to v is stored, removes exactly
\* one such element and returns it, len() decreases by exactly 1 and the
\* other elements keep their relative order; when none is, it returns None
\* and the sequence is unchanged.
C10_RemoveItemEffect ==
    op = "remove_item" =>
        IF HasEqual(old, arg)
        THEN \E i \in 0 .. (Len(old) - 1) :
                /\ Eq(old[i + 1], arg)
                /\ ret = Some(old[i + 1])
                /\ len(vec) = len(old) - 1
                /\ TakenAt(old, i, vec)
        ELSE ret = None /\ vec = old

\* remove_item found its value between two other stored elements.
C10_Witness ==
    /\ op = "remove_item" /\ ret # None
    /\ Len(old) >= 3
    /\ Eq(old[2], arg)

\* the number of elements of s that are less than v
CountLess(s, v) == Cardinality({ i \in 1 .. Len(s) : Cmp(s[i], v) = "Less" })

\* C11: insert(v) into a container that holds no element equal to v returns
\* the number of stored elements less than v, and afterwards get(0), get(1),
\* ... are the stored values in ascending order (5, 3, 7 inserted into an
\* empty container return 0, 0, 2 and give [3, 5, 7]).
C11_InsertRank ==
    (op = "insert" /\ ~HasEqual(old, arg)) =>
        /\ ret = CountLess(old, arg)
        /\ \A i \in 0 .. (len(vec) - 1) : get(vec, i) = Some(vec[i + 1])
        /\ \A i \in 0 .. (len(vec) - 2) :
               Cmp(get(vec, i)[1], get(vec, i + 1)[1]) = "Less"

\* The scenario of test_insert_and_get with keys 2, 1, 3 for 5, 3, 7: the
\* second insert returned 0 and the third returns 2, giving [1, 2, 3].
C11_Witness ==
    /\ prev.op = "insert" /\ op = "insert"
    /\ Len(prev.old) = 1 /\ prev.old[1].key = 2
    /\ prev.arg.key = 1 /\ prev.ret = 0
    /\ arg.key = 3 /\ ret = 2
    /\ Len(vec) = 3 /\ vec[1].key = 1 /\ vec[2].key = 2 /\ vec[3].key = 3

\* C12: resize(new_len, fill) with new_len > len() keeps the first len()
\* elements and appends exactly new_len - len() copies of fill at the end,
\* without re-sorting; a fill smaller than a stored element so leaves the
\* container unsorted (C12_Witness).
C12_ResizeGrow ==
    (op = "resize" /\ arg.new_len > len(old)) =>
        /\ len(vec) = arg.new_len
        /\ SubSeq(vec, 1, len(old)) = old
        /\ \A i \in (len(old) + 1) .. len(vec) : vec[i] = arg.value

\* resize has just grown a sorted container with a fill smaller than a stored
\* element: the sort order is broken.
C12_Witness ==
    /\ op = "resize" /\ arg.new_len > len(old)
    /\ len(old) >= 1 /\ Sorted(old)
    /\ Cmp(arg.value, old[len(old)]) = "Less"
    /\ ~Sorted(vec)

\* C13: resize(k, fill) with k < len() leaves the first k elements of the
\* original, whatever fill is, and the result is sorted when the original was.
C13_ResizeTruncate ==
    (op = "resize" /\ arg.new_len < len(old)) =>
        /\ vec = SubSeq(old, 1, arg.new_len)
        /\ Sorted(old) => Sorted(vec)

\* resize has just cut a sorted container of three or more down to two or
\* more, with a fill smaller than everything in it.
C13_Witness ==
    /\ op = "resize" /\ arg.new_len < len(old)
    /\ arg.new_len >= 2
    /\ Sorted(old) /\ old[1] # old[len(old)]
    /\ Cmp(arg.value, old[1]) = "Less"

\* C14: capacity() >= len() in every state reached from new or with_capacity
\* by insert, remove, remove_item, clear, reserve, shrink_to_fit and resize.
C14_CapacityGeLen == capacity(cap) >= len(vec)

\* An insert into a container shrunk to exactly its three elements has grown
\* the allocation.
C14_Witness ==
    /\ op = "insert"
    /\ len(old) = 3 /\ len(vec) = 4
    /\ capacity(cap) = 2 * len(old)

\* C15: after any insert, remove and remove_item calls, first() is None iff
\* the container is empty and otherwise the minimum of the stored elements;
\* last() is None iff it is empty and otherwise their maximum.
C15_FirstLast ==
    /\ (first(vec) = None) <=> is_empty(vec)
    /\ (last(vec) = None) <=> is_empty(vec)
    /\ ~is_empty(vec) =>
           \A i \in 1 .. Len(vec) :
               /\ Cmp(first(vec)[1], vec[i]) # "Greater"
               /\ Cmp(last(vec)[1], vec[i]) # "Less"

\* The minimum of three elements has just been removed; first() is the next.
C15_Witness ==
    /\ op = "remove" /\ arg = 0 /\ len(old) >= 3
    /\ first(vec) = Some(old[2])
    /\ last(vec) = Some(old[len(old)])

\* C16: reserve(additional) and shrink_to_fit() never change len(), the
\* stored elements or their order; only capacity() may change.
C16_CapacityOnly ==
    op \in {"reserve", "shrink_to_fit"} =>
        /\ vec = old
        /\ len(vec) = len(old)

\* reserve has just grown the allocation of a container of three elements.
C16_Witness ==
    /\ op = "reserve" /\ arg > 0
    /\ len(vec) >= 3
    /\ capacity(cap) > MinNonZeroCap

\* for all valid i < j, s[i] < s[j]: no two elements compare equal
StrictlySorted(s) == \A i, j \in 1 .. Len(s) : i < j => Cmp(s[i], s[j]) = "Less"

\* C17: after every insert, remove, remove_item and clear call made on a
\* container that started empty, the stored elements are strictly increasing:
\* no two of them compare equal.
C17_StrictlySorted == StrictlySorted(vec)

\* The container holds one element per key, and a value equal to, but not
\* the same as, the greatest of them has just been passed to insert.
C17_Witness ==
    /\ op = "insert"
    /\ prev.op = "insert" /\ Len(prev.old) >= 1
    /\ Len(old) = Len(prev.old) + 1
    /\ Eq(arg, old[Len(old)])
    /\ arg # old[Len(old)]
    /\ Len(vec) = MaxKey

\* C18: insert(v) of a value equal to a stored element leaves the contents
\* and len() unchanged, drops v and returns the index of the stored equal
\* element; so insert(v); insert(v) leaves the state, and returns the index,
\* of a single insert(v).
C18_InsertIdempotent ==
    /\ (op = "insert" /\ HasEqual(old, arg)) =>
            /\ vec = old
            /\ len(vec) = len(old)
            /\ get_index(old, arg) = Some(ret)
            /\ Eq(old[ret + 1], arg)
    /\ (op = "insert" /\ prev.op = "insert" /\ prev.arg = arg) =>
            /\ vec = old
            /\ ret = prev.ret

\* v was inserted behind a stored element, as a new element, and then
\* inserted again.
C18_Witness ==
    /\ prev.op = "insert" /\ op = "insert"
    /\ prev.arg = arg
    /\ ~HasEqual(prev.old, arg)
    /\ prev.ret >= 1
    /\ ret = prev.ret

\* C19: after remove_item(v) returns Some, contains(v) is false and
\* get_index(v) is None, however often v was inserted before.
C19_RemovedIsGone ==
    (op = "remove_item" /\ ret # None) =>
        /\ ~contains(vec, arg)
        /\ get_index(vec, arg) = None
        /\ ~HasEqual(vec, arg)

\* A value equal to a stored element was inserted once more and then
\* removed by remove_item.
C19_Witness ==
    /\ prev.op = "insert" /\ HasEqual(prev.old, prev.arg)
    /\ op = "remove_item" /\ Eq(arg, prev.arg)
    /\ ret # None
    /\ Len(vec) >= 1

====
